---- MODULE Spec2Model ----
(***************************************************************************)
(* Blue/green cutover of load balancers (ec2_asg_cutover_elb) and target   *)
(* groups (ec2_asg_cutover_target_groups) between two auto scaling groups. *)
(* One run of main() of either module is modelled, one action per          *)
(* statement group of main(); the AWS control plane is the environment:    *)
(* its attach/detach calls are set operations on the group's attachment    *)
(* set, its describe calls return inputs drawn from small sets.  An option  *)
(* of module.params is drawn where main() first reads it and kept from     *)
(* then on: params holds the options main() has read so far.               *)
(* time.time() never goes backwards; time passes while a poll iteration    *)
(* queries the endpoints and while it sleeps.  obs and log are history     *)
(* variables: what the running gate's last poll saw, and the mutation      *)
(* calls and gate exits so far; so are polls and recs.                     *)
(* Spec has every remote call succeed.  SpecFaults adds attach, detach and *)
(* health calls that raise; SpecRetry adds a second invocation with the    *)
(* same parameters after the first one died at an attach or detach call.   *)
(* SpecLive is Spec on one layout of endpoints with weak fairness of Next. *)
(* SpecAttach is one run of main() of ec2_asg_elbs or                      *)
(* ec2_asg_target_groups, which set the endpoints of a single group.       *)
(***************************************************************************)
EXTENDS Integers, Sequences, FiniteSets, TLC

\* ---------------------------------------------------------------- bounds
MaxWaitTimeout == 6     \* the positive wait_timeout tried (0 is tried too)
MaxCallDelay == 1       \* most seconds one poll iteration's queries take

\* time.sleep(5) between poll iterations
PollInterval == 5

\* ------------------------------------------------------------- universes
Modules == {"elb", "tg"}
Names == {"web-blue", "web-green"}
Endpoints == {"lb-blue", "lb-green"}
HealthCheckTypes == {"EC2", "ELB"}
Statuses == {"InService", "Pending"} \X {"Healthy", "Unhealthy"}
WaitTimeouts == {0, MaxWaitTimeout}
StandbyLists == SUBSET Endpoints     \* {} is an option left unset (None or [])

OldInstanceIds == {"i-old1"}         \* instances the current group can hold
NewInstanceIds == {"i-new1"}         \* instances the new group can hold

\* group['Instances'] as InstanceId -> (LifecycleState, HealthStatus)
InstanceMaps(ids) == UNION {[S -> Statuses] : S \in SUBSET ids}

NoGroup == [AutoScalingGroupName |-> "", Endpoints |-> {}, HealthCheckType |-> "",
            Instances |-> <<>>]

\* What describe_auto_scaling_groups can return for a group `name` whose
\* attachment set is `lbs`: LoadBalancerNames / TargetGroupARNs are `lbs`.
GroupRecords(name, lbs, ids) ==
    {[AutoScalingGroupName |-> name, Endpoints |-> lbs, HealthCheckType |-> h,
      Instances |-> i] : h \in HealthCheckTypes, i \in InstanceMaps(ids)}

\* One entry of describe_instance_health / describe_target_health for one
\* (endpoint, instance): present = FALSE when the instance is not listed;
\* Reason = "" when the TargetHealth has no Reason key.
Absent == [present |-> FALSE, State |-> "", Reason |-> ""]
HealthRecords(m) ==
    IF m = "elb"
    THEN {Absent,
          [present |-> TRUE, State |-> "InService", Reason |-> ""],
          [present |-> TRUE, State |-> "OutOfService", Reason |-> ""]}
    ELSE {Absent,
          [present |-> TRUE, State |-> "healthy", Reason |-> ""],
          [present |-> TRUE, State |-> "draining", Reason |-> "Target.DeregistrationInProgress"],
          [present |-> TRUE, State |-> "unused", Reason |-> "Target.NotInUse"],
          [present |-> TRUE, State |-> "unused", Reason |-> "Target.NotRegistered"]}

VARIABLES
    module,          \* which cutover module runs: "elb" or "tg"
    params,          \* module.params
    attached,        \* AWS: group name -> endpoints attached to it
    pc,              \* position in main()
    current_groups,  \* describe_auto_scaling_groups(current_group_name)['AutoScalingGroups']
    new_groups,      \* describe_auto_scaling_groups(new_group_name)['AutoScalingGroups']
    now,             \* time.time()
    wait_timeout,    \* the local wait_timeout: the running gate's deadline
    healthy,         \* the local healthy
    deregistered,    \* the local deregistered
    obs,             \* (endpoint, instance) pairs the running gate's last poll found satisfied
    log,             \* mutation calls issued and gates left, in order
    msg,             \* fail_json message, "" while none
    polls,           \* iterations the running gate's loop has done
    recs,            \* the records the deregistration loop's last iteration was given
    first_run        \* <<>> in a first invocation; in a re-run, what the crashed one had read

vars == <<module, params, attached, pc, current_groups, new_groups, now, wait_timeout,
          healthy, deregistered, obs, log, msg, polls, recs, first_run>>

\* ------------------------------------------------------- locals of main()
\* current_group = current_groups[0], new_group = new_groups[0]; main() assigns
\* them only when the lookup returned exactly one group
current_group == IF Len(current_groups) = 1 THEN current_groups[1] ELSE NoGroup
new_group == IF Len(new_groups) = 1 THEN new_groups[1] ELSE NoGroup
target_load_balancers == current_group.Endpoints      \* dest_target_groups
source_load_balancers == new_group.Endpoints          \* source_target_groups
\* a cutover that ignores the standby option
standby_always_source == source_load_balancers

standby_load_balancers ==                             \* standby_target_groups
    IF params.standby # {} THEN params.standby ELSE source_load_balancers
original_instances == DOMAIN current_group.Instances
new_instances == DOMAIN new_group.Instances
current_instance_status == current_group.Instances
new_instance_status == new_group.Instances

Init ==
    /\ module \in Modules
    /\ params \in [current_group_name : {"web-blue"}, new_group_name : Names]
    /\ attached \in [Names -> SUBSET Endpoints]
    /\ pc = "start"
    /\ current_groups = <<>>
    /\ new_groups = <<>>
    /\ now = 0
    /\ wait_timeout = 0
    /\ healthy = FALSE
    /\ deregistered = FALSE
    /\ obs = {}
    /\ log = <<>>
    /\ msg = ""
    /\ polls = 0
    /\ recs = <<>>
    /\ first_run = <<>>

\* module.params.get(k) returning v: drawn at the first read, the same afterwards
params_get(k, v) ==
    IF k \in DOMAIN params
    THEN params[k] = v /\ UNCHANGED params
    ELSE params' = params @@ (k :> v)

\* module.fail_json(msg=m): the process exits with the error
fail_json(m) ==
    /\ pc' = "failed"
    /\ msg' = m

\* ----------------------------------------------------------- validation
\* a validation that lets equal names through
CheckNamesUnchecked ==
    /\ pc = "start"
    /\ pc' = "describe_current"
    /\ UNCHANGED <<first_run, module, params, attached, current_groups, new_groups, now, wait_timeout,
                   healthy, deregistered, obs, polls, recs, log, msg>>

CheckNames ==
    /\ pc = "start"
    /\ IF params.current_group_name = params.new_group_name
       THEN fail_json("current_group_name and new_group_name cannot be the same!")
       ELSE pc' = "describe_current" /\ UNCHANGED msg
    /\ UNCHANGED <<first_run, module, params, attached, current_groups, new_groups, now, wait_timeout,
                   healthy, deregistered, obs, polls, recs, log>>

DescribeCurrent ==
    /\ pc = "describe_current"
    /\ \E n \in 0..2 :
       \E g \in GroupRecords(params.current_group_name,
                             attached[params.current_group_name], OldInstanceIds) :
          /\ current_groups' = [k \in 1..n |-> g]
          /\ IF n > 1
             THEN fail_json("More than one auto scaling group was found (current)")
             ELSE IF n < 1
             THEN fail_json("The current auto scaling group was not found")
             ELSE pc' = "describe_new" /\ UNCHANGED msg
    /\ UNCHANGED <<first_run, module, params, attached, new_groups, now, wait_timeout,
                   healthy, deregistered, obs, polls, recs, log>>

DescribeNew ==
    /\ pc = "describe_new"
    /\ \E n \in 0..2 :
       \E g \in GroupRecords(params.new_group_name,
                             attached[params.new_group_name], NewInstanceIds) :
          /\ new_groups' = [k \in 1..n |-> g]
          /\ IF n > 1
             THEN fail_json("More than one auto scaling group was found (new)")
             ELSE IF n < 1
             THEN fail_json("The new auto scaling group was not found")
             ELSE pc' = "check_endpoints" /\ UNCHANGED msg
    /\ UNCHANGED <<first_run, module, params, attached, current_groups, now, wait_timeout,
                   healthy, deregistered, obs, polls, recs, log>>

\* a validation that forgets the new group's attachments
CheckEndpointsTargetOnly ==
    /\ pc = "check_endpoints"
    /\ IF Cardinality(target_load_balancers) = 0
       THEN fail_json("No endpoints are attached to the current auto scaling group")
       ELSE pc' = "check_new_instances" /\ UNCHANGED msg
    /\ UNCHANGED <<first_run, module, params, attached, current_groups, new_groups, now, wait_timeout,
                   healthy, deregistered, obs, polls, recs, log>>

CheckEndpoints ==
    /\ pc = "check_endpoints"
    /\ IF Cardinality(target_load_balancers) = 0
       THEN fail_json("No endpoints are attached to the current auto scaling group")
       ELSE IF Cardinality(source_load_balancers) = 0
       THEN fail_json("No endpoints are attached to the new auto scaling group")
       ELSE pc' = "check_new_instances" /\ UNCHANGED msg
    /\ UNCHANGED <<first_run, module, params, attached, current_groups, new_groups, now, wait_timeout,
                   healthy, deregistered, obs, polls, recs, log>>

\* a validation that looks at the lifecycle state only
CheckNewInstancesLifecycleOnly ==
    /\ pc = "check_new_instances"
    /\ \E s \in StandbyLists : params_get("standby", s)
    /\ IF \E i \in DOMAIN new_instance_status : new_instance_status[i][1] # "InService"
       THEN fail_json("Instances in new_group must be healthy and in service")
       ELSE pc' = "detach_source" /\ UNCHANGED msg
    /\ UNCHANGED <<first_run, module, attached, current_groups, new_groups, now, wait_timeout,
                   healthy, deregistered, obs, polls, recs, log>>

CheckNewInstances ==
    /\ pc = "check_new_instances"
    /\ \E s \in StandbyLists : params_get("standby", s)
    /\ IF \E i \in DOMAIN new_instance_status :
             new_instance_status[i][1] # "InService" \/ new_instance_status[i][2] # "Healthy"
       THEN fail_json("Instances in new_group must be healthy and in service")
       ELSE pc' = "detach_source" /\ UNCHANGED msg
    /\ UNCHANGED <<first_run, module, attached, current_groups, new_groups, now, wait_timeout,
                   healthy, deregistered, obs, polls, recs, log>>

\* ------------------------------------------------- AWS mutation calls
Call(op, g, E) == [op |-> op, group |-> g, endpoints |-> E, seen |-> {}]

\* a gate left: how ("passed" or "timeout"), and what its last poll iteration saw
GateEvent(how, gate, lbs) == [op |-> how, group |-> gate, endpoints |-> lbs, seen |-> obs]

\* autoscaling.detach_load_balancers / detach_load_balancer_target_groups
detach_load_balancers(g, E) ==
    /\ attached' = [attached EXCEPT ![g] = @ \ E]
    /\ log' = Append(log, Call("detach", g, E))

\* autoscaling.attach_load_balancers / attach_load_balancer_target_groups
attach_load_balancers(g, E) ==
    /\ attached' = [attached EXCEPT ![g] = @ \cup E]
    /\ log' = Append(log, Call("attach", g, E))

\* autoscaling.update_auto_scaling_group(HealthCheckType, HealthCheckGracePeriod),
\* issued only for a group whose HealthCheckType is ELB
restore_health_check(group) ==
    /\ log' = IF group.HealthCheckType = "ELB"
              THEN Append(log, Call("update", group.AutoScalingGroupName, {}))
              ELSE log
    /\ UNCHANGED attached

\* --------------------------------------------------- health predicates
\* a filter that ignores the lifecycle state
InScopeAnyLifecycle(status, hct) ==
    status[2] = "Healthy" \/ hct # "ELB"

\* a filter that ignores the health status
InScopeAnyHealth(status, hct) ==
    status[1] = "InService"

\* "InService prior to switching, and where the group uses ELB health checks,
\*  that their health check passed"
InScope(status, hct) ==
    status[1] = "InService" /\ (status[2] = "Healthy" \/ hct # "ELB")

\* the instance is registered and healthy according to the endpoint
InstanceHealthy(m, r) ==
    IF m = "elb"
    THEN ~(~r.present \/ r.State # "InService")
    ELSE ~(~r.present \/ r.State # "healthy")

\* a test that takes every unused target for deregistered, whatever the reason
StillRegisteredByState(m, r) ==
    IF m = "elb"
    THEN r.present
    ELSE r.present /\ r.State # "unused"

\* the instance still counts as registered with the endpoint
StillRegistered(m, r) ==
    IF m = "elb"
    THEN r.present
    ELSE /\ r.present
         /\ IF r.State # "" /\ r.Reason # ""
            THEN ~(r.State = "unused" /\ r.Reason = "Target.NotRegistered")
            ELSE TRUE

\* what one poll iteration can be told: a record per (endpoint, instance), for
\* every instance there is, in the snapshot of the group or not
Observations(lbs, ids) == [lbs \X ids -> HealthRecords(module)]

\* a loop that gates on the instances the endpoints report, not on the snapshot
PollHealthyOfAnswer(h, lbs, status, hct) ==
    \A p \in DOMAIN h :
        (p[1] \in lbs /\ h[p].present) => InstanceHealthy(module, h[p])

\* the value of healthy at the end of one iteration of a health loop
PollHealthy(h, lbs, status, hct) ==
    \A e \in lbs : \A i \in DOMAIN status :
        InScope(status[i], hct) => InstanceHealthy(module, h[<<e, i>>])

\* the value of deregistered at the end of one iteration of the deregistration loop
PollDeregistered(h, lbs, ids) ==
    \A e \in lbs : \A i \in ids : ~StillRegistered(module, h[<<e, i>>])

\* the loop condition: while not done and wait_timeout > time.time()
LoopGoesOn(done) == ~done /\ wait_timeout > now

\* a timeout test that misses the instant of the deadline
TimedOutStrict == wait_timeout < now

\* the test after a loop: if wait_timeout <= time.time()
TimedOut == wait_timeout <= now

\* a deadline that is the time of the entry, whatever the wait_timeout
SetDeadlineNow ==
    \E w \in WaitTimeouts :
        /\ params_get("wait_timeout", w)
        /\ wait_timeout' = now

\* one deadline for the whole run, counted from its start
SetDeadlineFromStart ==
    \E w \in WaitTimeouts :
        /\ params_get("wait_timeout", w)
        /\ wait_timeout' = w

\* wait_timeout = time.time() + module.params.get('wait_timeout')
SetDeadline ==
    \E w \in WaitTimeouts :
        /\ params_get("wait_timeout", w)
        /\ wait_timeout' = now + w

\* ------------------------------------------------ phase 2: prepare new
DetachSourceFromNew ==
    /\ pc = "detach_source"
    /\ detach_load_balancers(new_group.AutoScalingGroupName, source_load_balancers)
    /\ pc' = "attach_target"
    /\ UNCHANGED <<first_run, module, params, current_groups, new_groups, now, wait_timeout,
                   healthy, deregistered, obs, polls, recs, msg>>

\* a phase 2 that goes to the gate without attaching the destination endpoints
AttachTargetToNewSkipped ==
    /\ pc = "attach_target"
    /\ pc' = "restore_new"
    /\ UNCHANGED <<first_run, module, params, attached, current_groups, new_groups, now,
                   wait_timeout, healthy, deregistered, obs, polls, recs, log, msg>>

AttachTargetToNew ==
    /\ pc = "attach_target"
    /\ attach_load_balancers(new_group.AutoScalingGroupName, target_load_balancers)
    /\ pc' = "restore_new"
    /\ UNCHANGED <<first_run, module, params, current_groups, new_groups, now, wait_timeout,
                   healthy, deregistered, obs, polls, recs, msg>>

RestoreNewHealthCheck ==
    /\ pc = "restore_new"
    /\ restore_health_check(new_group)
    /\ pc' = "new_gate_init"
    /\ UNCHANGED <<first_run, module, params, current_groups, new_groups, now, wait_timeout,
                   healthy, deregistered, obs, polls, recs, msg>>

\* ------------------------------------- phase 3: gate on new-group health
NewGateInit ==
    /\ pc = "new_gate_init"
    /\ healthy' = FALSE
    /\ polls' = 0
    /\ SetDeadline
    /\ pc' = "new_gate_while"
    /\ UNCHANGED <<first_run, module, attached, current_groups, new_groups, now,
                   deregistered, obs, recs, log, msg>>

\* a loop that is left only when healthy: past the deadline it hangs
NewGateWhileSpins ==
    /\ pc = "new_gate_while"
    /\ healthy \/ LoopGoesOn(healthy)
    /\ pc' = IF healthy THEN "new_gate_after" ELSE "new_gate_poll"
    /\ UNCHANGED <<first_run, module, params, attached, current_groups, new_groups, now, wait_timeout,
                   healthy, deregistered, obs, polls, recs, log, msg>>

NewGateWhile ==
    /\ pc = "new_gate_while"
    /\ pc' = IF LoopGoesOn(healthy) THEN "new_gate_poll" ELSE "new_gate_after"
    /\ UNCHANGED <<first_run, module, params, attached, current_groups, new_groups, now, wait_timeout,
                   healthy, deregistered, obs, polls, recs, log, msg>>

\* a loop that keeps what earlier iterations saw healthy
NewGatePollCarriesOver ==
    /\ pc = "new_gate_poll"
    /\ \E h \in Observations(target_load_balancers, NewInstanceIds) :
       \E d \in 0..MaxCallDelay :
          LET ok == \A p \in target_load_balancers \X new_instances :
                        InScope(new_instance_status[p[2]], new_group.HealthCheckType) =>
                            (InstanceHealthy(module, h[p]) \/ p \in obs)
          IN /\ healthy' = ok
             /\ obs' = {p \in target_load_balancers \X new_instances :
                           /\ InScope(new_instance_status[p[2]], new_group.HealthCheckType)
                           /\ InstanceHealthy(module, h[p])}
             /\ now' = now + d + (IF ok THEN 0 ELSE PollInterval)
    /\ polls' = polls + 1
    /\ pc' = "new_gate_while"
    /\ UNCHANGED <<first_run, module, params, attached, current_groups, new_groups, wait_timeout,
                   deregistered, recs, log, msg>>

NewGatePoll ==
    /\ pc = "new_gate_poll"
    /\ \E h \in Observations(target_load_balancers, NewInstanceIds) :
       \E d \in 0..MaxCallDelay :
          LET ok == PollHealthy(h, target_load_balancers, new_instance_status,
                                new_group.HealthCheckType)
          IN /\ healthy' = ok
             /\ obs' = {p \in target_load_balancers \X new_instances :
                           /\ InScope(new_instance_status[p[2]], new_group.HealthCheckType)
                           /\ InstanceHealthy(module, h[p])}
             /\ now' = now + d + (IF ok THEN 0 ELSE PollInterval)
    /\ polls' = polls + 1
    /\ pc' = "new_gate_while"
    /\ UNCHANGED <<first_run, module, params, attached, current_groups, new_groups, wait_timeout,
                   deregistered, recs, log, msg>>

NewGateTimeoutMsg(rolled_back) ==
    IF module = "elb"
    THEN "Waited too long for target ELB to report instances as healthy"
    ELSE IF rolled_back
    THEN "Waited too long for destination target group to report instances as healthy. Deployment has been rolled back."
    ELSE "Waited too long for destination target group to report instances as healthy. No rollback action taken."

NewGateAfter ==
    /\ pc = "new_gate_after"
    /\ IF TimedOut
       THEN /\ log' = Append(log, GateEvent("timeout", "new_gate", target_load_balancers))
            /\ \E r \in BOOLEAN :
                  /\ params_get("rollback_on_failure", r)
                  /\ IF r
                     THEN pc' = "new_rollback_detach" /\ UNCHANGED msg
                     ELSE fail_json(NewGateTimeoutMsg(FALSE))
       ELSE /\ log' = Append(log, GateEvent("passed", "new_gate", target_load_balancers))
            /\ pc' = "detach_target"
            /\ UNCHANGED <<msg, params>>
    /\ obs' = {}
    /\ UNCHANGED <<first_run, module, attached, current_groups, new_groups, now, wait_timeout,
                   healthy, deregistered, polls, recs>>

NewRollbackDetach ==
    /\ pc = "new_rollback_detach"
    /\ detach_load_balancers(new_group.AutoScalingGroupName, target_load_balancers)
    /\ pc' = "new_rollback_attach"
    /\ UNCHANGED <<first_run, module, params, current_groups, new_groups, now, wait_timeout,
                   healthy, deregistered, obs, polls, recs, msg>>

\* a rollback that reports the failure without re-attaching the source
NewRollbackAttachSkipped ==
    /\ pc = "new_rollback_attach"
    /\ fail_json(NewGateTimeoutMsg(TRUE))
    /\ UNCHANGED <<first_run, module, params, attached, current_groups, new_groups, now, wait_timeout,
                   healthy, deregistered, obs, polls, recs, log>>

\* a rollback that falls through to phase 4 instead of failing
NewRollbackAttachFallsThrough ==
    /\ pc = "new_rollback_attach"
    /\ attach_load_balancers(new_group.AutoScalingGroupName, source_load_balancers)
    /\ pc' = "detach_target"
    /\ UNCHANGED <<first_run, module, params, current_groups, new_groups, now, wait_timeout,
                   healthy, deregistered, obs, polls, recs, msg>>

NewRollbackAttach ==
    /\ pc = "new_rollback_attach"
    /\ attach_load_balancers(new_group.AutoScalingGroupName, source_load_balancers)
    /\ fail_json(NewGateTimeoutMsg(TRUE))
    /\ UNCHANGED <<first_run, module, params, current_groups, new_groups, now, wait_timeout,
                   healthy, deregistered, obs, polls, recs>>

\* --------------------------------------------- phase 4: cut over current
\* a phase 4 that attaches the standby endpoints before it detaches anything
DetachTargetFromCurrentAttachFirst ==
    /\ pc = "detach_target"
    /\ attach_load_balancers(current_group.AutoScalingGroupName, standby_load_balancers)
    /\ pc' = "attach_standby"
    /\ UNCHANGED <<first_run, module, params, current_groups, new_groups, now, wait_timeout,
                   healthy, deregistered, obs, polls, recs, msg>>

DetachTargetFromCurrent ==
    /\ pc = "detach_target"
    /\ detach_load_balancers(current_group.AutoScalingGroupName, target_load_balancers)
    /\ pc' = "attach_standby"
    /\ UNCHANGED <<first_run, module, params, current_groups, new_groups, now, wait_timeout,
                   healthy, deregistered, obs, polls, recs, msg>>

AttachStandbyToCurrent ==
    /\ pc = "attach_standby"
    /\ attach_load_balancers(current_group.AutoScalingGroupName, standby_load_balancers)
    /\ pc' = "restore_current"
    /\ UNCHANGED <<first_run, module, params, current_groups, new_groups, now, wait_timeout,
                   healthy, deregistered, obs, polls, recs, msg>>

RestoreCurrentHealthCheck ==
    /\ pc = "restore_current"
    /\ restore_health_check(current_group)
    /\ pc' = "dereg_gate_init"
    /\ UNCHANGED <<first_run, module, params, current_groups, new_groups, now, wait_timeout,
                   healthy, deregistered, obs, polls, recs, msg>>

\* ---------------------------------------- phase 5: gate on deregistration
DeregGateInit ==
    /\ pc = "dereg_gate_init"
    /\ deregistered' = FALSE
    /\ polls' = 0
    /\ SetDeadline
    /\ pc' = "dereg_gate_while"
    /\ UNCHANGED <<first_run, module, attached, current_groups, new_groups, now,
                   healthy, obs, recs, log, msg>>

DeregGateWhile ==
    /\ pc = "dereg_gate_while"
    /\ pc' = IF LoopGoesOn(deregistered) THEN "dereg_gate_poll" ELSE "dereg_gate_after"
    /\ UNCHANGED <<first_run, module, params, attached, current_groups, new_groups, now, wait_timeout,
                   healthy, deregistered, obs, polls, recs, log, msg>>

DeregGatePoll ==
    /\ pc = "dereg_gate_poll"
    /\ \E h \in Observations(target_load_balancers, OldInstanceIds) :
       \E d \in 0..MaxCallDelay :
          LET ok == PollDeregistered(h, target_load_balancers, original_instances)
          IN /\ deregistered' = ok
             /\ obs' = {p \in target_load_balancers \X original_instances :
                           ~StillRegistered(module, h[p])}
             /\ recs' = [p \in target_load_balancers \X original_instances |-> h[p]]
             /\ now' = now + d + (IF ok THEN 0 ELSE PollInterval)
    /\ polls' = polls + 1
    /\ pc' = "dereg_gate_while"
    /\ UNCHANGED <<first_run, module, params, attached, current_groups, new_groups, wait_timeout,
                   healthy, log, msg>>

DeregGateTimeoutMsg(rolled_back) ==
    IF module = "elb"
    THEN "Waited too long for target ELB to deregister old instances"
    ELSE IF rolled_back
    THEN "Waited too long for destination target group to deregister old instances. Deployment has been rolled back."
    ELSE "Waited too long for destination target group to deregister old instances. No rollback action taken."

DeregGateAfter ==
    /\ pc = "dereg_gate_after"
    /\ IF TimedOut
       THEN /\ log' = Append(log, GateEvent("timeout", "dereg_gate", target_load_balancers))
            /\ IF module = "elb"
               THEN fail_json(DeregGateTimeoutMsg(FALSE)) /\ UNCHANGED params
               ELSE \E r \in BOOLEAN :
                       /\ params_get("rollback_on_failure", r)
                       /\ IF r
                          THEN pc' = "dereg_rollback_detach_standby" /\ UNCHANGED msg
                          ELSE fail_json(DeregGateTimeoutMsg(FALSE))
       ELSE /\ log' = Append(log, GateEvent("passed", "dereg_gate", target_load_balancers))
            /\ \E v \in BOOLEAN :
                  /\ params_get("verify_standby_instances", v)
                  /\ pc' = IF v THEN "standby_gate_init" ELSE "exit"
            /\ UNCHANGED msg
    /\ obs' = {}
    /\ recs' = <<>>
    /\ UNCHANGED <<first_run, module, attached, current_groups, new_groups, now, wait_timeout,
                   healthy, deregistered, polls>>

\* a rollback that leaves the standby endpoints on the current group
DeregRollbackDetachStandbySkipped ==
    /\ pc = "dereg_rollback_detach_standby"
    /\ pc' = "dereg_rollback_attach_target"
    /\ UNCHANGED <<first_run, module, params, attached, current_groups, new_groups, now,
                   wait_timeout, healthy, deregistered, obs, polls, recs, log, msg>>

DeregRollbackDetachStandby ==
    /\ pc = "dereg_rollback_detach_standby"
    /\ detach_load_balancers(current_group.AutoScalingGroupName, standby_load_balancers)
    /\ pc' = "dereg_rollback_attach_target"
    /\ UNCHANGED <<first_run, module, params, current_groups, new_groups, now, wait_timeout,
                   healthy, deregistered, obs, polls, recs, msg>>

DeregRollbackAttachTarget ==
    /\ pc = "dereg_rollback_attach_target"
    /\ attach_load_balancers(current_group.AutoScalingGroupName, target_load_balancers)
    /\ pc' = "dereg_rollback_detach_target"
    /\ UNCHANGED <<first_run, module, params, current_groups, new_groups, now, wait_timeout,
                   healthy, deregistered, obs, polls, recs, msg>>

DeregRollbackDetachTarget ==
    /\ pc = "dereg_rollback_detach_target"
    /\ detach_load_balancers(new_group.AutoScalingGroupName, target_load_balancers)
    /\ pc' = "dereg_rollback_attach_source"
    /\ UNCHANGED <<first_run, module, params, current_groups, new_groups, now, wait_timeout,
                   healthy, deregistered, obs, polls, recs, msg>>

DeregRollbackAttachSource ==
    /\ pc = "dereg_rollback_attach_source"
    /\ attach_load_balancers(new_group.AutoScalingGroupName, source_load_balancers)
    /\ fail_json(DeregGateTimeoutMsg(TRUE))
    /\ UNCHANGED <<first_run, module, params, current_groups, new_groups, now, wait_timeout,
                   healthy, deregistered, obs, polls, recs>>

\* ------------------------------------- phase 6: optional standby gate
StandbyGateInit ==
    /\ pc = "standby_gate_init"
    /\ healthy' = FALSE
    /\ polls' = 0
    /\ SetDeadline
    /\ pc' = "standby_gate_while"
    /\ UNCHANGED <<first_run, module, attached, current_groups, new_groups, now,
                   deregistered, obs, recs, log, msg>>

StandbyGateWhile ==
    /\ pc = "standby_gate_while"
    /\ pc' = IF LoopGoesOn(healthy) THEN "standby_gate_poll" ELSE "standby_gate_after"
    /\ UNCHANGED <<first_run, module, params, attached, current_groups, new_groups, now, wait_timeout,
                   healthy, deregistered, obs, polls, recs, log, msg>>

StandbyGatePoll ==
    /\ pc = "standby_gate_poll"
    /\ \E h \in Observations(standby_load_balancers, OldInstanceIds) :
       \E d \in 0..MaxCallDelay :
          LET ok == PollHealthy(h, standby_load_balancers, current_instance_status,
                                current_group.HealthCheckType)
          IN /\ healthy' = ok
             /\ obs' = {p \in standby_load_balancers \X original_instances :
                           /\ InScope(current_instance_status[p[2]],
                                      current_group.HealthCheckType)
                           /\ InstanceHealthy(module, h[p])}
             /\ now' = now + d + (IF ok THEN 0 ELSE PollInterval)
    /\ polls' = polls + 1
    /\ pc' = "standby_gate_while"
    /\ UNCHANGED <<first_run, module, params, attached, current_groups, new_groups, wait_timeout,
                   deregistered, recs, log, msg>>

StandbyGateTimeoutMsg ==
    IF module = "elb"
    THEN "Waited too long for standby ELB to report instances as healthy"
    ELSE "Waited too long for standby target group to report instances as healthy"

\* a standby gate whose timeout is advisory: the result is still produced
StandbyGateAfterAdvisory ==
    /\ pc = "standby_gate_after"
    /\ log' = Append(log, GateEvent(IF TimedOut THEN "timeout" ELSE "passed",
                                    "standby_gate", standby_load_balancers))
    /\ pc' = "exit"
    /\ obs' = {}
    /\ UNCHANGED <<first_run, module, params, attached, current_groups, new_groups, now, wait_timeout,
                   healthy, deregistered, polls, recs, msg>>

\* a standby gate whose timeout starts the rollback of the cutover
StandbyGateAfterRollsBack ==
    /\ pc = "standby_gate_after"
    /\ IF TimedOut
       THEN /\ log' = Append(log, GateEvent("timeout", "standby_gate", standby_load_balancers))
            /\ pc' = "dereg_rollback_detach_standby"
            /\ UNCHANGED msg
       ELSE /\ log' = Append(log, GateEvent("passed", "standby_gate", standby_load_balancers))
            /\ pc' = "exit"
            /\ UNCHANGED msg
    /\ obs' = {}
    /\ UNCHANGED <<first_run, module, params, attached, current_groups, new_groups, now, wait_timeout,
                   healthy, deregistered, polls, recs>>

StandbyGateAfter ==
    /\ pc = "standby_gate_after"
    /\ IF TimedOut
       THEN /\ log' = Append(log, GateEvent("timeout", "standby_gate", standby_load_balancers))
            /\ fail_json(StandbyGateTimeoutMsg)
       ELSE /\ log' = Append(log, GateEvent("passed", "standby_gate", standby_load_balancers))
            /\ pc' = "exit"
            /\ UNCHANGED msg
    /\ obs' = {}
    /\ UNCHANGED <<first_run, module, params, attached, current_groups, new_groups, now, wait_timeout,
                   healthy, deregistered, polls, recs>>

\* ------------------------------------------------------ phase 7: result
\* the result handed to module.exit_json(changed=True, result=result)
result ==
    [new_group |-> [name |-> new_group.AutoScalingGroupName,
                    load_balancer_names |-> target_load_balancers,
                    instance_ids |-> new_instances,
                    instance_status |-> new_instance_status],
     old_group |-> [name |-> current_group.AutoScalingGroupName,
                    load_balancer_names |-> standby_load_balancers,
                    instance_ids |-> original_instances,
                    instance_status |-> current_instance_status]]

ExitJson ==
    /\ pc = "exit"
    /\ pc' = "exited"
    /\ UNCHANGED <<first_run, module, params, attached, current_groups, new_groups, now, wait_timeout,
                   healthy, deregistered, obs, polls, recs, log, msg>>

Next ==
    \/ CheckNames
    \/ DescribeCurrent
    \/ DescribeNew
    \/ CheckEndpoints
    \/ CheckNewInstances
    \/ DetachSourceFromNew
    \/ AttachTargetToNew
    \/ RestoreNewHealthCheck
    \/ NewGateInit
    \/ NewGateWhile
    \/ NewGatePoll
    \/ NewGateAfter
    \/ NewRollbackDetach
    \/ NewRollbackAttach
    \/ DetachTargetFromCurrent
    \/ AttachStandbyToCurrent
    \/ RestoreCurrentHealthCheck
    \/ DeregGateInit
    \/ DeregGateWhile
    \/ DeregGatePoll
    \/ DeregGateAfter
    \/ DeregRollbackDetachStandby
    \/ DeregRollbackAttachTarget
    \/ DeregRollbackDetachTarget
    \/ DeregRollbackAttachSource
    \/ StandbyGateInit
    \/ StandbyGateWhile
    \/ StandbyGatePoll
    \/ StandbyGateAfter
    \/ ExitJson

Spec == Init /\ [][Next]_vars

\* ======================================================== properties
cur_name == params.current_group_name
new_name == params.new_group_name

IsMutation(c) == c.op \in {"detach", "attach", "update"}

\* the in-scope members of a baseline snapshot: in service and healthy at start
BaselineHealthy(status) == {i \in DOMAIN status : status[i] = <<"InService", "Healthy">>}

\* a gate's last poll saw every one of `ids` satisfied on every one of `lbs`
Covers(seen, lbs, ids) == \A e \in lbs : \A i \in ids : <<e, i>> \in seen

Left(k, how, gate) == log[k].op = how /\ log[k].group = gate
NewGateTimedOut == \E k \in DOMAIN log : Left(k, "timeout", "new_gate")
NewGatePassed == \E k \in DOMAIN log : Left(k, "passed", "new_gate")
RollbackRead == "rollback_on_failure" \in DOMAIN params
RollbackEnabled == RollbackRead /\ params.rollback_on_failure
RollbackDisabled == RollbackRead /\ ~params.rollback_on_failure

DeregGatePcs == {"dereg_gate_init", "dereg_gate_while", "dereg_gate_poll", "dereg_gate_after"}
StandbyGatePcs == {"standby_gate_init", "standby_gate_while", "standby_gate_poll",
                   "standby_gate_after"}
ValidationPcs == {"start", "describe_current", "describe_new", "check_endpoints",
                  "check_new_instances"}
Terminated == pc \in {"failed", "exited"}

\* the new-group gate was passed before log position k, its last poll having seen
\* every in-scope member of the new group healthy on every target endpoint
NewGatePassedFullyBefore(k) ==
    \E j \in 1..(k - 1) :
        /\ Left(j, "passed", "new_gate")
        /\ Covers(log[j].seen, target_load_balancers, BaselineHealthy(new_instance_status))

DetachesTargetFromCurrent(k) ==
    /\ log[k].op = "detach"
    /\ log[k].group = cur_name
    /\ log[k].endpoints \cap target_load_balancers # {}

\* C1: the target endpoints are detached from the current group, and the
\* deregistration gate is entered, only after the new-group health gate passed with
\* every in-scope member of the new group seen healthy on every target endpoint.
C1_GateBeforeCutover ==
    /\ \A k \in DOMAIN log : DetachesTargetFromCurrent(k) => NewGatePassedFullyBefore(k)
    /\ pc \in DeregGatePcs => NewGatePassedFullyBefore(Len(log) + 1)

C1_Witness ==
    /\ pc = "dereg_gate_poll"
    /\ new_instances # {}
    /\ Cardinality(target_load_balancers) = 2

InScopeMembers(g) ==
    IF g = cur_name THEN BaselineHealthy(current_instance_status)
                    ELSE BaselineHealthy(new_instance_status)

\* The (endpoint, member) pairs of group g known to be registered healthy after the
\* first k log entries: its in-scope members on its own endpoints at the start, less
\* the endpoints detached from it since, plus what a passed health gate on g saw.
RECURSIVE KnownHealthyOn(_, _)
KnownHealthyOn(g, k) ==
    IF k = 0
    THEN (IF g = cur_name THEN target_load_balancers ELSE source_load_balancers)
             \X InScopeMembers(g)
    ELSE LET c == log[k]
             before == KnownHealthyOn(g, k - 1)
         IN IF c.op = "detach" /\ c.group = g
            THEN {p \in before : p[1] \notin c.endpoints}
            ELSE IF \/ c.op = "passed" /\ c.group = "new_gate" /\ g = new_name
                    \/ c.op = "passed" /\ c.group = "standby_gate" /\ g = cur_name
            THEN before \cup {p \in c.seen : p[2] \in InScopeMembers(g)}
            ELSE before

\* every in-scope member of g is known registered healthy on an endpoint attached to g
KnownHealthy(g) ==
    \A i \in InScopeMembers(g) :
        \E e \in attached[g] : <<e, i>> \in KnownHealthyOn(g, Len(log))

\* C2: at every point after the first attach, one of the two groups has every one of
\* its in-scope members known registered healthy on an endpoint attached to it.
C2_OneFleetKnownHealthy ==
    (\E k \in DOMAIN log : log[k].op = "attach")
        => (KnownHealthy(cur_name) \/ KnownHealthy(new_name))

\* C3: the target endpoints are detached from the current group only after some
\* member of the new group was seen healthy on every target endpoint.
C3_SomeMemberHealthyBeforeDetach ==
    \A k \in DOMAIN log :
        DetachesTargetFromCurrent(k) =>
            \E j \in 1..(k - 1) :
                /\ Left(j, "passed", "new_gate")
                /\ \A e \in target_load_balancers :
                      \E i \in new_instances : <<e, i>> \in log[j].seen

AfterPhase4Pcs == {"restore_current"} \cup DeregGatePcs \cup StandbyGatePcs \cup {"exit", "exited"}

AllBaselineHealthy ==
    /\ BaselineHealthy(current_instance_status) = original_instances
    /\ BaselineHealthy(new_instance_status) = new_instances

\* the standby endpoints: the supplied list, or the new group's original endpoints
ExpectedStandby == IF params.standby = {} THEN new_group.Endpoints ELSE params.standby

\* C4: with all baseline members in service and healthy and the new-group gate
\* passed, after phase 4 the current group is attached to exactly the standby
\* endpoints and the new group to exactly the current group's original endpoints.
C4_SwappedAfterPhase4 ==
    (pc \in AfterPhase4Pcs /\ AllBaselineHealthy /\ NewGatePassed)
        => /\ attached[cur_name] = ExpectedStandby
           /\ attached[new_name] = current_group.Endpoints

C4_Witness ==
    /\ pc = "exited"
    /\ AllBaselineHealthy
    /\ original_instances # {} /\ new_instances # {}
    /\ params.standby # {}
    /\ params.standby # new_group.Endpoints

\* C5: when the new-group gate timed out and rollback is enabled, the run ends in
\* an error with the new group attached to exactly its endpoints at the start.
C5_RollbackRestoresNewGroup ==
    (Terminated /\ NewGateTimedOut /\ RollbackEnabled)
        => /\ pc = "failed"
           /\ msg # ""
           /\ attached[new_name] = new_group.Endpoints

C5_Witness ==
    /\ pc = "failed"
    /\ NewGateTimedOut
    /\ RollbackEnabled
    /\ source_load_balancers \cap target_load_balancers # {}
    /\ source_load_balancers # target_load_balancers

\* C6: after a timeout of the new-group gate no call is ever issued on the current
\* group, whose endpoints stay as they were; the run only rolls back or fails; and
\* with rollback disabled no mutation follows the timeout, the new group staying
\* attached to the target endpoints.
C6_NewGateTimeoutIsTerminal ==
    \A k \in DOMAIN log :
        Left(k, "timeout", "new_gate") =>
            /\ pc \in {"new_rollback_detach", "new_rollback_attach", "failed"}
            /\ \A j \in DOMAIN log : IsMutation(log[j]) => log[j].group # cur_name
            /\ attached[cur_name] = current_group.Endpoints
            /\ RollbackDisabled =>
                  /\ \A j \in (k + 1)..Len(log) : ~IsMutation(log[j])
                  /\ attached[new_name] = target_load_balancers

C6_Witness ==
    /\ pc = "failed"
    /\ NewGateTimedOut
    /\ RollbackDisabled
    /\ source_load_balancers # target_load_balancers

C6_WitnessRollback ==
    /\ pc = "failed"
    /\ NewGateTimedOut
    /\ RollbackEnabled

\* C7: with equal group names the run fails validation and issues no call.
C7_EqualNamesRejected ==
    cur_name = new_name
        => /\ pc \in {"start", "failed"}
           /\ log = <<>>
           /\ pc = "failed" => msg = "current_group_name and new_group_name cannot be the same!"

C7_Witness == pc = "failed" /\ cur_name = new_name

\* a lookup that has been made and returned no group or more than one
CurrentLookupBad == pc \notin {"start", "describe_current"} /\ cur_name # new_name
                    /\ Len(current_groups) # 1
NewLookupBad == pc \notin {"start", "describe_current", "describe_new"}
                /\ Len(current_groups) = 1 /\ Len(new_groups) # 1
\* both groups looked up, one of them with nothing attached
NoEndpoints == /\ pc \notin {"start", "describe_current", "describe_new", "check_endpoints"}
               /\ Len(current_groups) = 1 /\ Len(new_groups) = 1
               /\ (current_group.Endpoints = {} \/ new_group.Endpoints = {})

\* C8: a lookup returning zero or several groups, or a group with no endpoint
\* attached, ends the run in an error before any mutation call.
C8_BadLookupRejected ==
    (CurrentLookupBad \/ NewLookupBad \/ NoEndpoints)
        => /\ pc = "failed"
           /\ msg # ""
           /\ log = <<>>
           /\ Len(current_groups) = 1 => attached[cur_name] = current_group.Endpoints
           /\ Len(new_groups) = 1 => attached[new_name] = new_group.Endpoints

C8_Witness ==
    /\ NoEndpoints
    /\ current_group.Endpoints # {}
    /\ pc = "failed"

C8_WitnessLookup == NewLookupBad /\ Len(new_groups) = 2 /\ pc = "failed"

\* C9: a new-group member not both in service and healthy in the baseline snapshot
\* ends the run in an error before any mutation call.
C9_UnhealthyNewGroupRejected ==
    (/\ pc \notin ValidationPcs
     /\ Len(new_groups) = 1
     /\ BaselineHealthy(new_instance_status) # new_instances)
        => pc = "failed" /\ msg # "" /\ log = <<>>

C9_Witness ==
    /\ pc = "failed"
    /\ msg = "Instances in new_group must be healthy and in service"
    /\ \E i \in new_instances : new_instance_status[i] = <<"InService", "Unhealthy">>

HealthCheckTypeOf(g) ==
    IF g = cur_name THEN current_group.HealthCheckType ELSE new_group.HealthCheckType

\* C10: every attach that closes a detach/attach pair on a group with ELB health
\* checks is followed at once by the health-check update of that group, and no
\* update is ever issued for a group with EC2 health checks.
C10_HealthCheckRestoredAfterEveryPair ==
    \A k \in DOMAIN log :
        /\ (log[k].op = "attach" /\ HealthCheckTypeOf(log[k].group) = "ELB")
              => IF k < Len(log)
                 THEN log[k + 1].op = "update" /\ log[k + 1].group = log[k].group
                 ELSE pc \in {"restore_new", "restore_current"}
        /\ log[k].op = "update" => HealthCheckTypeOf(log[k].group) = "ELB"

\* the endpoints group g had when main() read it
EndpointsRead(g) == IF g = cur_name THEN current_group.Endpoints ELSE new_group.Endpoints

\* the endpoints attached to group g once the first k entries of log are done
RECURSIVE AttachedAt(_, _)
AttachedAt(g, k) ==
    IF k = 0
    THEN EndpointsRead(g)
    ELSE LET c == log[k]
             before == AttachedAt(g, k - 1)
         IN IF c.group # g THEN before
            ELSE IF c.op = "attach" THEN before \cup c.endpoints
            ELSE IF c.op = "detach" THEN before \ c.endpoints
            ELSE before

\* C11: every attach call names only endpoints the group does not have at
\* the call, and no detach call names an endpoint the group is meant to keep,
\* that is, one the attach call that follows it for the same group names too
C11_CallsPassUniqueDelta ==
    \A k \in DOMAIN log :
        /\ log[k].op = "attach" =>
               log[k].endpoints \cap AttachedAt(log[k].group, k - 1) = {}
        /\ (/\ log[k].op = "detach"
            /\ k < Len(log)
            /\ log[k + 1].op = "attach"
            /\ log[k + 1].group = log[k].group) =>
               log[k].endpoints \cap log[k + 1].endpoints = {}

\* ================================================== failing remote calls
\* main() wraps no AWS call in try/except: a call that botocore fails raises
\* out of main(), and the process ends with the traceback instead of fail_json
MutationPcs == {"detach_source", "attach_target", "new_rollback_detach", "new_rollback_attach",
                "detach_target", "attach_standby", "dereg_rollback_detach_standby",
                "dereg_rollback_attach_target", "dereg_rollback_detach_target",
                "dereg_rollback_attach_source"}
QueryPcs == {"new_gate_poll", "dereg_gate_poll", "standby_gate_poll"}

\* the call at position pc raised: recorded with the position it was issued from
Raised == [op |-> "raised", group |-> pc, endpoints |-> {}, seen |-> obs]

\* a failed attach or detach that is caught and answered with the rollback calls
MutationRaisesCompensated ==
    /\ pc \in MutationPcs
    /\ log' = Append(log, Raised)
    /\ pc' = "new_rollback_detach"
    /\ UNCHANGED <<first_run, module, params, attached, current_groups, new_groups, now,
                   wait_timeout, healthy, deregistered, obs, polls, recs, msg>>

\* an attach or detach call fails: the call changes nothing and the process dies
MutationRaises ==
    /\ pc \in MutationPcs
    /\ log' = Append(log, Raised)
    /\ pc' = "crashed"
    /\ UNCHANGED <<first_run, module, params, attached, current_groups, new_groups, now,
                   wait_timeout, healthy, deregistered, obs, polls, recs, msg>>

\* describe_instance_health / describe_target_health fails inside a loop
QueryRaises ==
    /\ pc \in QueryPcs
    /\ log' = Append(log, Raised)
    /\ pc' = "crashed"
    /\ UNCHANGED <<first_run, module, params, attached, current_groups, new_groups, now,
                   wait_timeout, healthy, deregistered, obs, polls, recs, msg>>

NextFaults ==
    \/ Next
    \/ MutationRaises
    \/ QueryRaises

SpecFaults == Init /\ [][NextFaults]_vars

RaisedAt(k, pcs) == log[k].op = "raised" /\ log[k].group \in pcs

\* C12: a health query that fails inside a gate's loop does not end the
\* run: the process has not died of it
C12_FailedQueryKeepsPolling ==
    \A k \in DOMAIN log : RaisedAt(k, QueryPcs) => pc # "crashed"

\* C13: a failed attach or detach call is the last thing the run does: the
\* process is dead with no fail_json message, no call and no gate follows the
\* failure in the log, and the attachments are what the calls before it left
C13_FailedMutationIsTerminal ==
    \A k \in DOMAIN log :
        RaisedAt(k, MutationPcs) =>
            /\ k = Len(log)
            /\ pc = "crashed"
            /\ msg = ""
            /\ \A g \in {cur_name, new_name} : attached[g] = AttachedAt(g, k - 1)

\* the attach of the standby endpoints failed, after the three calls before it
C13_Witness ==
    /\ pc = "crashed"
    /\ Len(log) > 3
    /\ RaisedAt(Len(log), {"attach_standby"})
    /\ attached[cur_name] = {}

\* ================================================ who gates a health gate
\* the endpoints, members and health-check type the running health gate polls
HealthGate ==
    IF pc = "new_gate_while"
    THEN [lbs |-> target_load_balancers, status |-> new_instance_status,
          hct |-> new_group.HealthCheckType]
    ELSE [lbs |-> standby_load_balancers, status |-> current_instance_status,
          hct |-> current_group.HealthCheckType]

\* the last iteration of the running health gate left healthy false
Blocked == pc \in {"new_gate_while", "standby_gate_while"} /\ polls > 0 /\ ~healthy

\* the last iteration let the gate through
Unblocked == pc \in {"new_gate_while", "standby_gate_while"} /\ polls > 0 /\ healthy

\* the members of the polled fleet the last iteration did not see healthy on
\* every polled endpoint
NotSeenHealthy ==
    {i \in DOMAIN HealthGate.status : \E e \in HealthGate.lbs : <<e, i>> \notin obs}

\* C14: a member whose lifecycle state at the baseline was not InService
\* never blocks a health gate: a blocked gate always has an InService member
\* that its last iteration did not see healthy
C14_OnlyInServiceMembersBlock ==
    Blocked => \E i \in NotSeenHealthy : HealthGate.status[i][1] = "InService"

\* the standby gate was let through while a member of the fleet was Pending
C14_Witness ==
    /\ pc = "standby_gate_while"
    /\ Unblocked
    /\ standby_load_balancers # {}
    /\ \E i \in original_instances : current_instance_status[i][1] = "Pending"

Rerun ==
    /\ pc = "crashed"
    /\ first_run = <<>>
    /\ first_run' = <<[source |-> source_load_balancers, target |-> target_load_balancers]>>
    /\ pc' = "start"
    /\ current_groups' = <<>>
    /\ new_groups' = <<>>
    /\ now' = 0
    /\ wait_timeout' = 0
    /\ healthy' = FALSE
    /\ deregistered' = FALSE
    /\ obs' = {}
    /\ log' = <<>>
    /\ msg' = ""
    /\ polls' = 0
    /\ recs' = <<>>
    /\ UNCHANGED <<module, params, attached>>

NextRetry ==
    \/ Next
    \/ MutationRaises
    \/ Rerun

SpecRetry == Init /\ [][NextRetry]_vars

NoEndpointsMsgs == {"No endpoints are attached to the current auto scaling group",
                    "No endpoints are attached to the new auto scaling group"}

\* a re-run that completed left the new group with the endpoints the current
\* group had before the first run, and the current group with the standby
\* endpoints of the first run
CompletedRerunSameAssignment ==
    (first_run # <<>> /\ pc = "exited") =>
        /\ attached[new_name] = first_run[1].target
        /\ attached[cur_name] = IF params.standby # {} THEN params.standby
                                ELSE first_run[1].source

\* C16: a re-run of an invocation that died at an attach or detach call is
\* not turned away for what the dead run left behind, and when it completes
\* it leaves the endpoint assignment an uninterrupted run would have left
C16_RerunReachesSameAssignment ==
    /\ first_run # <<>> => msg \notin NoEndpointsMsgs
    /\ CompletedRerunSameAssignment

\* ======================================================== gate deadlines
GateWhilePcs == {"new_gate_while", "dereg_gate_while", "standby_gate_while"}

\* the running gate has just been entered: its loop has done no iteration
GateEntered == pc \in GateWhilePcs /\ polls = 0

\* C17: when a gate is entered its deadline is the time of the entry plus
\* the configured wait_timeout, however much time the gates before it took
C17_DeadlineFromGateEntry ==
    GateEntered => wait_timeout = now + params.wait_timeout

\* the deregistration gate entered after the gate before it took some time
C17_Witness ==
    /\ GateEntered
    /\ pc = "dereg_gate_while"
    /\ now > 0
    /\ params.wait_timeout > 0

\* ========================================================== standby gate
StandbyGateRan == pc \in StandbyGatePcs \/ \E k \in DOMAIN log : log[k].group = "standby_gate"

\* C18: the standby gate runs only when verify_standby_instances was read
\* true; its timeout is the last entry of the log, the run has failed with
\* the standby message, and the cutover stands: the new group has the target
\* endpoints and the current group the standby endpoints
C18_StandbyTimeoutLeavesCutover ==
    /\ StandbyGateRan =>
           "verify_standby_instances" \in DOMAIN params /\ params.verify_standby_instances
    /\ \A k \in DOMAIN log :
           Left(k, "timeout", "standby_gate") =>
               /\ k = Len(log)
               /\ pc = "failed"
               /\ msg = StandbyGateTimeoutMsg
               /\ attached[new_name] = target_load_balancers
               /\ attached[cur_name] = ExpectedStandby

\* the standby gate timed out after its loop had polled
C18_Witness ==
    /\ pc = "failed"
    /\ Len(log) > 0
    /\ Left(Len(log), "timeout", "standby_gate")
    /\ params.wait_timeout > 0
    /\ attached[cur_name] # attached[new_name]

\* =================================================== deregistration gate
\* the record is an active registration: there is one, and it is not the
\* marker of a target that is not registered
ActiveRegistration(r) ==
    r.present /\ ~(r.State = "unused" /\ r.Reason = "Target.NotRegistered")

NoActiveRegistration == \A p \in DOMAIN recs : ~ActiveRegistration(recs[p])

\* C19: an iteration of the deregistration loop ends with deregistered true
\* exactly when none of the records it was given, for the original members on
\* the target endpoints, is an active registration; and the gate is passed
\* only after such an iteration
C19_DeregisteredIffNoActiveRegistration ==
    /\ (pc = "dereg_gate_while" /\ polls > 0) => (deregistered <=> NoActiveRegistration)
    /\ (pc = "dereg_gate_after" /\ ~TimedOut) => (polls > 0 /\ NoActiveRegistration)

\* an iteration that was given the not-registered marker ended with deregistered true
C19_Witness ==
    /\ pc = "dereg_gate_while"
    /\ polls > 0
    /\ deregistered
    /\ \E p \in DOMAIN recs : recs[p].present

\* an iteration that was given a draining record ended with deregistered false
C19_WitnessDraining ==
    /\ pc = "dereg_gate_while"
    /\ polls > 0
    /\ ~deregistered
    /\ \A p \in DOMAIN recs : recs[p].present => recs[p].State = "draining"

\* =============================================================== outcome
GatePassed(gate) == \E k \in DOMAIN log : Left(k, "passed", gate)
NoGateTimedOut == \A k \in DOMAIN log : log[k].op # "timeout"

\* C20: a run ends with the result or with an error message, never with
\* both: an exited run has no message, a failed run has one. The result is
\* produced only after every gate that was entered passed, and it reports the
\* new group with the target endpoints, the current group with the standby
\* endpoints, as AWS has them, and the two baseline snapshots
C20_OneOutcome ==
    /\ msg # "" <=> pc = "failed"
    /\ pc = "exited" =>
           /\ NoGateTimedOut
           /\ GatePassed("new_gate")
           /\ GatePassed("dereg_gate")
           /\ params.verify_standby_instances => GatePassed("standby_gate")
           /\ result.new_group.name = new_name
           /\ result.old_group.name = cur_name
           /\ result.new_group.load_balancer_names = current_groups[1].Endpoints
           /\ result.new_group.load_balancer_names = attached[new_name]
           /\ result.old_group.load_balancer_names = ExpectedStandby
           /\ result.old_group.load_balancer_names = attached[cur_name]
           /\ result.new_group.instance_ids = DOMAIN new_groups[1].Instances
           /\ result.new_group.instance_status = new_groups[1].Instances
           /\ result.old_group.instance_ids = DOMAIN current_groups[1].Instances
           /\ result.old_group.instance_status = current_groups[1].Instances

\* a run that produced the result after passing all three gates
C20_Witness ==
    /\ pc = "exited"
    /\ GatePassed("standby_gate")
    /\ attached[cur_name] # attached[new_name]
    /\ original_instances # {}

\* ====================================================== the error value
\* C21: the error of a run that failed on the timeout of the new-group gate
\* tells whether the rollback was done: it is not the error the same timeout
\* gives under the other value of rollback_on_failure
C21_TimeoutErrorTellsRollback ==
    (pc = "failed" /\ NewGateTimedOut) =>
        /\ msg = NewGateTimeoutMsg(params.rollback_on_failure)
        /\ msg # NewGateTimeoutMsg(~params.rollback_on_failure)

\* ============== ec2_asg_elbs / ec2_asg_target_groups: set one group's endpoints
\* One run of main() of either module, on the same variables: current_groups
\* holds the local groups, params the options name, endpoints (load_balancers
\* or target_groups) and wait_timeout. A target group is identified with its
\* ARN: describe_target_groups returns the requested groups.
AttachModules == {"ec2_asg_elbs", "ec2_asg_target_groups"}
RequestedLists == SUBSET Endpoints \ {{}}

\* which health API the module polls
Api == IF module = "ec2_asg_elbs" THEN "elb" ELSE "tg"

group == IF Len(current_groups) = 1 THEN current_groups[1] ELSE NoGroup
new_load_balancers == params.endpoints                  \* new_target_groups
old_load_balancers == group.Endpoints                   \* old_target_groups
unique_new_load_balancers == {l \in new_load_balancers : l \notin old_load_balancers}
unique_old_load_balancers == {l \in old_load_balancers : l \notin new_load_balancers}
instances == DOMAIN group.Instances
instance_status == group.Instances

InitAttach ==
    /\ module \in AttachModules
    /\ params \in [name : {"web-blue"}]
    /\ attached \in [Names -> SUBSET Endpoints]
    /\ pc = "describe_group"
    /\ current_groups = <<>>
    /\ new_groups = <<>>
    /\ now = 0
    /\ wait_timeout = 0
    /\ healthy = FALSE
    /\ deregistered = FALSE
    /\ obs = {}
    /\ log = <<>>
    /\ msg = ""
    /\ polls = 0
    /\ recs = <<>>
    /\ first_run = <<>>

DescribeGroup ==
    /\ pc = "describe_group"
    /\ \E n \in 0..2 :
       \E g \in GroupRecords(params.name, attached[params.name], OldInstanceIds) :
          /\ current_groups' = [k \in 1..n |-> g]
          /\ IF n > 1
             THEN fail_json("More than one auto scaling group was found")
             ELSE IF n < 1
             THEN fail_json("The auto scaling group was not found")
             ELSE pc' = "check_instances" /\ UNCHANGED msg
    /\ UNCHANGED <<first_run, module, params, attached, new_groups, now, wait_timeout,
                   healthy, deregistered, obs, polls, recs, log>>

CheckInstances ==
    /\ pc = "check_instances"
    /\ \E E \in RequestedLists : params_get("endpoints", E)
    /\ IF \E i \in DOMAIN instance_status :
             instance_status[i][1] # "InService" \/ instance_status[i][2] # "Healthy"
       THEN fail_json("Instances in group must be healthy and in service")
       ELSE pc' = "attach_new" /\ UNCHANGED msg
    /\ UNCHANGED <<first_run, module, attached, current_groups, new_groups, now, wait_timeout,
                   healthy, deregistered, obs, polls, recs, log>>

\* the whole requested list is attached, not unique_new_load_balancers
AttachNew ==
    /\ pc = "attach_new"
    /\ attach_load_balancers(group.AutoScalingGroupName, new_load_balancers)
    /\ pc' = "gate_init"
    /\ UNCHANGED <<first_run, module, params, current_groups, new_groups, now, wait_timeout,
                   healthy, deregistered, obs, polls, recs, msg>>

GateInit ==
    /\ pc = "gate_init"
    /\ healthy' = FALSE
    /\ polls' = 0
    /\ SetDeadline
    /\ pc' = "gate_while"
    /\ UNCHANGED <<first_run, module, attached, current_groups, new_groups, now,
                   deregistered, obs, recs, log, msg>>

GateWhile ==
    /\ pc = "gate_while"
    /\ pc' = IF LoopGoesOn(healthy) THEN "gate_poll" ELSE "gate_after"
    /\ UNCHANGED <<first_run, module, params, attached, current_groups, new_groups, now,
                   wait_timeout, healthy, deregistered, obs, polls, recs, log, msg>>

\* the filter of the loop names new_group, which main() never defines; the
\* pre-check left only InService and Healthy members, for which the "or"
\* stops before it: the filter is the one of an ELB group
GatePoll ==
    /\ pc = "gate_poll"
    /\ \E h \in [new_load_balancers \X instances -> HealthRecords(Api)] :
       \E d \in 0..MaxCallDelay :
          LET seen == {p \in new_load_balancers \X instances :
                          /\ InScope(instance_status[p[2]], "ELB")
                          /\ InstanceHealthy(Api, h[p])}
              ok == \A p \in new_load_balancers \X instances :
                        InScope(instance_status[p[2]], "ELB") => p \in seen
          IN /\ healthy' = ok
             /\ obs' = seen
             /\ now' = now + d + (IF ok THEN 0 ELSE PollInterval)
    /\ polls' = polls + 1
    /\ pc' = "gate_while"
    /\ UNCHANGED <<first_run, module, params, attached, current_groups, new_groups,
                   wait_timeout, deregistered, recs, log, msg>>

GateTimeoutMsg ==
    IF module = "ec2_asg_elbs"
    THEN "Waited too long for target ELB to report instances as healthy"
    ELSE "Waited too long for target ELB to report instances as healthy. No rollback action was taken."

\* a gate whose timeout is advisory: the old endpoints are detached all the same
GateAfterAdvisory ==
    /\ pc = "gate_after"
    /\ log' = Append(log, GateEvent(IF TimedOut THEN "timeout" ELSE "passed",
                                    "gate", new_load_balancers))
    /\ pc' = "detach_old"
    /\ obs' = {}
    /\ UNCHANGED <<first_run, module, params, attached, current_groups, new_groups, now,
                   wait_timeout, healthy, deregistered, polls, recs, msg>>

\* rollback_on_failure is not in the argument_spec of either module:
\* module.params.get('rollback_on_failure') is None and the detach of
\* unique_new_load_balancers under it is never issued
GateAfter ==
    /\ pc = "gate_after"
    /\ IF TimedOut
       THEN /\ log' = Append(log, GateEvent("timeout", "gate", new_load_balancers))
            /\ fail_json(GateTimeoutMsg)
       ELSE /\ log' = Append(log, GateEvent("passed", "gate", new_load_balancers))
            /\ pc' = "detach_old"
            /\ UNCHANGED msg
    /\ obs' = {}
    /\ UNCHANGED <<first_run, module, params, attached, current_groups, new_groups, now,
                   wait_timeout, healthy, deregistered, polls, recs>>

\* a detach of everything that was attached at the start
DetachOldAll ==
    /\ pc = "detach_old"
    /\ detach_load_balancers(group.AutoScalingGroupName, old_load_balancers)
    /\ pc' = "exit"
    /\ UNCHANGED <<first_run, module, params, current_groups, new_groups, now, wait_timeout,
                   healthy, deregistered, obs, polls, recs, msg>>

DetachOld ==
    /\ pc = "detach_old"
    /\ detach_load_balancers(group.AutoScalingGroupName, unique_old_load_balancers)
    /\ pc' = "exit"
    /\ UNCHANGED <<first_run, module, params, current_groups, new_groups, now, wait_timeout,
                   healthy, deregistered, obs, polls, recs, msg>>

\* the result handed to exit_json by ec2_asg_elbs / ec2_asg_target_groups
attach_result ==
    [name |-> group.AutoScalingGroupName,
     load_balancer_names |-> new_load_balancers,
     instance_ids |-> instances,
     instance_status |-> instance_status]

NextAttach ==
    \/ DescribeGroup
    \/ CheckInstances
    \/ AttachNew
    \/ GateInit
    \/ GateWhile
    \/ GatePoll
    \/ GateAfter
    \/ DetachOld
    \/ ExitJson

SpecAttach == InitAttach /\ [][NextAttach]_vars

EndpointsRequested == "endpoints" \in DOMAIN params

\* C22: when ec2_asg_elbs or ec2_asg_target_groups exits with the result,
\* the group has exactly the requested endpoints; and at every point of the
\* run an endpoint that was attached at the start and is requested is attached
C22_ExactlyRequestedAttached ==
    /\ pc = "exited" => attached[params.name] = params.endpoints
    /\ (Len(current_groups) = 1 /\ EndpointsRequested) =>
           (old_load_balancers \cap new_load_balancers) \subseteq attached[params.name]

\* a run that succeeded with one endpoint kept, one detached
C22_Witness ==
    /\ pc = "exited"
    /\ old_load_balancers \cap new_load_balancers # {}
    /\ unique_old_load_balancers # {}

\* C23: when the health gate of ec2_asg_elbs or ec2_asg_target_groups timed
\* out, the group is left with the endpoints it had at the start
C23_TimeoutRollsBack ==
    (pc = "failed" /\ \E k \in DOMAIN log : Left(k, "timeout", "gate")) =>
        attached[params.name] = old_load_balancers

\* ================================================= the order of the calls
IsAttachOrDetach(c) == c.op \in {"attach", "detach"}

\* the attach and detach calls among the first k entries of log
CallsUpTo(k) == SelectSeq(SubSeq(log, 1, k), IsAttachOrDetach)

IsPrefix(s, t) == Len(s) <= Len(t) /\ \A i \in 1..Len(s) : s[i] = t[i]

ForwardCalls ==
    <<Call("detach", new_name, source_load_balancers),
      Call("attach", new_name, target_load_balancers),
      Call("detach", cur_name, target_load_balancers),
      Call("attach", cur_name, standby_load_balancers)>>

NewRollbackCalls ==
    <<Call("detach", new_name, target_load_balancers),
      Call("attach", new_name, source_load_balancers)>>

DeregRollbackCalls ==
    <<Call("detach", cur_name, standby_load_balancers),
      Call("attach", cur_name, target_load_balancers)>> \o NewRollbackCalls

\* C24: the attach and detach calls of a run are a prefix of the forward
\* calls followed by the rollback calls of the gate that timed out; the new
\* gate is left after exactly the two calls of phase 2, the other gates after
\* exactly the four forward calls; no gate is left twice, and calls beyond
\* the forward ones follow a timeout
C24_CallsInFixedOrder ==
    Len(log) > 0 =>
        /\ \/ IsPrefix(CallsUpTo(Len(log)), SubSeq(ForwardCalls, 1, 2) \o NewRollbackCalls)
           \/ IsPrefix(CallsUpTo(Len(log)), ForwardCalls \o DeregRollbackCalls)
        /\ \A k \in DOMAIN log :
               /\ log[k].group = "new_gate" => Len(CallsUpTo(k)) = 2
               /\ log[k].group \in {"dereg_gate", "standby_gate"} => Len(CallsUpTo(k)) = 4
               /\ \A j \in DOMAIN log :
                      (log[j].group = log[k].group /\ ~IsMutation(log[k])) => j = k
        /\ (Len(CallsUpTo(Len(log))) > 4 \/ ~IsPrefix(CallsUpTo(Len(log)), ForwardCalls)) =>
               \E k \in DOMAIN log : log[k].op = "timeout"

\* a run that issued the four forward calls and the four rollback calls
C24_Witness ==
    /\ pc = "failed"
    /\ Len(log) > 0
    /\ Len(CallsUpTo(Len(log))) = 8

\* ============================================== one iteration, all healthy
\* C25: a health gate is let through only by an iteration that itself saw
\* every member InService and Healthy at the baseline healthy on every
\* endpoint of the gate; a gate that was passed was passed on such an iteration
C25_PassedOnOneFullIteration ==
    /\ Unblocked =>
           Covers(obs, HealthGate.lbs, BaselineHealthy(HealthGate.status))
    /\ \A k \in DOMAIN log :
           /\ Left(k, "passed", "new_gate") =>
                  Covers(log[k].seen, target_load_balancers,
                         BaselineHealthy(new_instance_status))
           /\ Left(k, "passed", "standby_gate") =>
                  Covers(log[k].seen, standby_load_balancers,
                         BaselineHealthy(current_instance_status))

\* the second iteration of the new-group gate saw the member healthy on both endpoints
C25_Witness ==
    /\ pc = "new_gate_while"
    /\ Unblocked
    /\ polls = 2
    /\ new_instances # {}
    /\ Cardinality(target_load_balancers) = 2

\* ============================= rollback of the deregistration gate (tg)
DeregGateRolledBack ==
    /\ pc = "failed"
    /\ RollbackEnabled
    /\ \E k \in DOMAIN log : Left(k, "timeout", "dereg_gate")

\* C26: after the rollback of a timed-out deregistration gate both groups
\* have the endpoints they had when main() read them, and the last four calls
\* restored the current group first and the new group second
C26_DeregRollbackRestoresBoth ==
    DeregGateRolledBack =>
        /\ module = "tg"
        /\ attached[cur_name] = current_group.Endpoints
        /\ attached[new_name] = new_group.Endpoints
        /\ Len(log) >= 4
        /\ SubSeq(log, Len(log) - 3, Len(log)) = DeregRollbackCalls

\* a rollback with overlapping source and target and a standby list of its own
C26_Witness ==
    /\ DeregGateRolledBack
    /\ target_load_balancers \cap source_load_balancers # {}
    /\ target_load_balancers # source_load_balancers
    /\ standby_load_balancers \notin {source_load_balancers, target_load_balancers}

\* ================================================= the baseline snapshot
\* the members of the snapshot that the filter of the running gate lets gate
Gating == {i \in DOMAIN HealthGate.status : InScope(HealthGate.status[i], HealthGate.hct)}

\* C27: the two snapshots are taken before the first call and never again,
\* and an iteration of a health loop ends with healthy true exactly when the
\* gating members of the snapshot were all seen healthy on every endpoint:
\* an instance outside the snapshot never blocks, whatever the endpoints
\* report for it, and a member of the snapshot that an endpoint no longer
\* lists does
C27_SnapshotFixesWhoGates ==
    /\ Len(log) > 0 =>
           /\ pc \notin {"describe_current", "describe_new"}
           /\ Len(current_groups) = 1
           /\ Len(new_groups) = 1
    /\ (pc \in {"new_gate_while", "standby_gate_while"} /\ polls > 0) =>
           (healthy <=> Covers(obs, HealthGate.lbs, Gating))

\* the new-group gate was let through with an instance outside the snapshot
C27_Witness ==
    /\ pc = "new_gate_while"
    /\ Unblocked
    /\ new_instances # NewInstanceIds

\* a member of the snapshot blocks
C27_WitnessBlocked ==
    /\ Blocked
    /\ Gating # {}

\* =========================================================== termination
\* one layout of endpoints, for the runs checked for termination: each group
\* on an endpoint of its own
InitLive ==
    /\ Init
    /\ attached = [n \in Names |-> IF n = "web-blue" THEN {"lb-blue"} ELSE {"lb-green"}]

\* main() keeps running: the clock advances (a sleep takes PollInterval
\* seconds) and every remote call returns
SpecLive == InitLive /\ [][Next]_vars /\ WF_vars(Next)

\* C28: every run ends, with the result or with an error, and an iteration
\* of a gate's loop is started only before the deadline of the gate
C28_Terminates ==
    /\ <>Terminated
    /\ [](pc \in QueryPcs => wait_timeout > now)

\* a run that ended on a gate whose loop polled twice and was never satisfied
C28_Witness ==
    /\ Terminated
    /\ polls = 2
    /\ Len(log) > 0
    /\ log[Len(log)].op = "timeout"
    /\ ~healthy

\* ================================================== the test after a loop
GateAfterPcs == {"new_gate_after", "dereg_gate_after", "standby_gate_after"}

\* the last iteration of the loop just left found its condition satisfied
LastPollSatisfied ==
    /\ pc \in GateAfterPcs
    /\ polls > 0
    /\ IF pc = "dereg_gate_after" THEN deregistered ELSE healthy

\* C29: a loop left after an iteration that found its condition satisfied
\* is not followed by the timeout branch
C29_SatisfiedPollProceeds ==
    LastPollSatisfied => ~TimedOut

\* C30 as claimed: whatever the wait_timeout, the timeout branch is taken
\* only after the loop has done an iteration
C30_NoTimeoutWithoutPoll ==
    (pc \in GateAfterPcs /\ TimedOut) => polls > 0

\* C30 amended: with a wait_timeout above 0 the timeout branch is taken only
\* after the loop has done an iteration; with wait_timeout 0 the loop does
\* none and the timeout branch is always taken
C30_NoTimeoutWithoutPollUnlessZero ==
    pc \in GateAfterPcs =>
        /\ (TimedOut /\ params.wait_timeout > 0) => polls > 0
        /\ params.wait_timeout = 0 => (TimedOut /\ polls = 0)

\* the deregistration gate timed out after two iterations
C30_Witness ==
    /\ pc = "dereg_gate_after"
    /\ TimedOut
    /\ params.wait_timeout > 0
    /\ polls = 2
    /\ ~deregistered

\* ======================================= the destination endpoints' holder
\* a call that changes a group's endpoints has been issued
Mutated == \E k \in DOMAIN log : IsAttachOrDetach(log[k])

\* the groups an endpoint is attached to
HoldersOf(e) == {g \in {cur_name, new_name} : e \in attached[g]}

\* C31: from the first attach or detach call on, every destination endpoint
\* (an endpoint the current group had when main() read it) is attached to
\* the current group or to the new group
C31_DestinationNeverOrphaned ==
    Mutated => \A e \in target_load_balancers : HoldersOf(e) # {}

\* after phase 4 the new group alone holds a destination endpoint
C31_Witness ==
    /\ pc = "attach_standby"
    /\ \E e \in target_load_balancers : HoldersOf(e) = {new_name}

\* in the rollback of the deregistration gate the current group alone holds
\* a destination endpoint again
C31_WitnessRollback ==
    /\ pc = "dereg_rollback_attach_source"
    /\ \E e \in target_load_balancers : HoldersOf(e) = {cur_name}

\* ============================ the two cutover modules as one state machine
\* what a record of either health API says of an instance on an endpoint
AbstractHealth(m, r) ==
    IF InstanceHealthy(m, r) THEN "healthy"
    ELSE IF StillRegistered(m, r) THEN "registered"
    ELSE "absent"

\* a value the option rollback_on_failure can have in this run: the value
\* main() read, or either value when main() has not read the option
RollbackMayBe(r) ==
    "rollback_on_failure" \in DOMAIN params => params.rollback_on_failure = r

DeregGateTimedOut == \E k \in DOMAIN log : Left(k, "timeout", "dereg_gate")
StandbyGateTimedOut == \E k \in DOMAIN log : Left(k, "timeout", "standby_gate")

\* the attach and detach calls of a whole run of ec2_asg_cutover_target_groups
\* with rollback_on_failure = r, by the gate that timed out
TgCalls(r) ==
    IF NewGateTimedOut
    THEN SubSeq(ForwardCalls, 1, 2) \o (IF r THEN NewRollbackCalls ELSE <<>>)
    ELSE IF DeregGateTimedOut
    THEN ForwardCalls \o (IF r THEN DeregRollbackCalls ELSE <<>>)
    ELSE ForwardCalls

\* how a run of ec2_asg_cutover_target_groups ends, by the gate that timed out
TgOutcome ==
    IF NewGateTimedOut THEN "new_gate_timeout"
    ELSE IF DeregGateTimedOut THEN "dereg_gate_timeout"
    ELSE IF StandbyGateTimedOut THEN "standby_gate_timeout"
    ELSE "result"

\* how this run ended: with the result, or with the error of a gate
Outcome ==
    IF pc = "exited" THEN "result"
    ELSE IF msg \in {NewGateTimeoutMsg(TRUE), NewGateTimeoutMsg(FALSE)} THEN "new_gate_timeout"
    ELSE IF msg \in {DeregGateTimeoutMsg(TRUE), DeregGateTimeoutMsg(FALSE)}
    THEN "dereg_gate_timeout"
    ELSE IF msg = StandbyGateTimeoutMsg THEN "standby_gate_timeout"
    ELSE "precondition"

\* the calls and the end of a finished run are those of the target-group
\* cutover on the same gate verdicts, for every value the options can have
RunsAsTargetGroups ==
    (Terminated /\ Mutated) =>
        \A r \in BOOLEAN :
            RollbackMayBe(r) =>
                /\ CallsUpTo(Len(log)) = TgCalls(r)
                /\ Outcome = TgOutcome

\* the reference is the target-group cutover: its own runs follow it
ReferenceIsTargetGroups == module = "tg" => RunsAsTargetGroups

\* C32: the ELB cutover and the target-group cutover are one state machine.
\* An iteration of the deregistration loop decides on the abstract
\* observations alone (deregistered exactly when every pair is absent), and
\* a finished run of either module has issued the attach and detach calls,
\* and ended in the outcome, of the target-group cutover on the same fleets,
\* options and gate verdicts
C32_ElbAndTgSameMachine ==
    /\ (pc = "dereg_gate_while" /\ polls > 0) =>
           (deregistered <=>
               \A p \in DOMAIN recs : AbstractHealth(module, recs[p]) = "absent")
    /\ RunsAsTargetGroups

\* ================== ec2_asg_elbs / ec2_asg_target_groups: the old endpoints
\* the gate of ec2_asg_elbs / ec2_asg_target_groups was left before log
\* position k, passed, its last iteration having seen every member healthy
\* on every requested endpoint
GateSucceededBefore(k) ==
    \E j \in 1..(k - 1) :
        /\ Left(j, "passed", "gate")
        /\ Covers(log[j].seen, new_load_balancers, instances)

\* C33: in ec2_asg_elbs and ec2_asg_target_groups a detach call is issued,
\* and an endpoint the group had at the start is missing from it, only after
\* the gate on the requested endpoints has succeeded; after a timeout of the
\* gate no detach call has been issued and the group still has every
\* endpoint it had at the start
C33_OldDetachedOnlyAfterGate ==
    Len(current_groups) = 1 =>
        /\ \A k \in DOMAIN log : log[k].op = "detach" => GateSucceededBefore(k)
        /\ ~(old_load_balancers \subseteq attached[params.name]) =>
               GateSucceededBefore(Len(log) + 1)
        /\ (\E k \in DOMAIN log : Left(k, "timeout", "gate")) =>
               /\ \A k \in DOMAIN log : log[k].op # "detach"
               /\ old_load_balancers \subseteq attached[params.name]

\* an old endpoint that is not requested was detached after the gate
C33_Witness ==
    /\ pc = "exit"
    /\ instances # {}
    /\ unique_old_load_balancers # {}
    /\ unique_old_load_balancers \cap attached[params.name] = {}

\* the gate timed out after an iteration and the old endpoints are in place
C33_WitnessTimeout ==
    /\ pc = "failed"
    /\ \E k \in DOMAIN log : Left(k, "timeout", "gate")
    /\ polls > 0
    /\ unique_old_load_balancers # {}
    /\ unique_new_load_balancers # {}

====
